---------------------------- MODULE Spec2Model ----------------------------
(***************************************************************************)
(* Murnaghan-Nakayama character evaluation and exact Kronecker             *)
(* coefficients (engines/algebra/murnaghan_nakayama.py), together with the *)
(* hook-length dimension formula (engines/algebra/representation_analyzer  *)
(* .py).  Partitions and cycle types are sequences of integers; Python's   *)
(* 0-based row index i is kept, and row i of p is read as At(p, i).        *)
(*                                                                         *)
(* character_mn is wrapped in functools.lru_cache: the cache stores the    *)
(* value the body computed for the same arguments, so the value returned   *)
(* by a call is the value of the body, which CharacterMn computes; the     *)
(* cache itself is state of the specification SpecCache, further down.     *)
(*                                                                         *)
(* Each component has its own specification over the one set of variables: *)
(* Spec (the calls of the Murnaghan-Nakayama module), SpecTape, SpecRef,   *)
(* SpecHolo, SpecAre, SpecCache and SpecPar; the variables of the other    *)
(* components stay as their "Off" predicate sets them.                     *)
(***************************************************************************)
EXTENDS Integers, Sequences, FiniteSets, TLC

(* ------------------------------ bounds --------------------------------- *)
\* largest n for character_mn / specht_dimension / trivial-representation calls
MaxN == 7
\* largest n for which every triple of partitions is given to kronecker
MaxKronN == 4
\* ill-formed argument sequences: length and entry range
MaxInvLen == 2
MaxInvEntry == 2
MaxNeg == 1
\* largest n whose cycle types are given to character_mn in every order
MaxPermN == 4

(* --------------------------- small helpers ----------------------------- *)
Min(a, b) == IF a < b THEN a ELSE b

Range(s) == {s[i] : i \in 1..Len(s)}

\* Python p[i] with a 0-based index
At(p, i) == p[i + 1]

RECURSIVE SumSeq(_)
\* Python sum(p)
SumSeq(s) == IF s = <<>> THEN 0 ELSE Head(s) + SumSeq(Tail(s))

RECURSIVE Factorial(_)
\* math.factorial for n >= 0 (negative n raises ValueError, see KronReturn)
Factorial(m) == IF m <= 0 THEN 1 ELSE m * Factorial(m - 1)

\* part * mult in place of part ** mult
PowerAsProduct(b, e) == b * e

RECURSIVE Power(_, _)
\* Python part ** mult for mult >= 0
Power(b, e) == IF e <= 0 THEN 1 ELSE b * Power(b, e - 1)

RECURSIVE InsertDesc(_, _)
InsertDesc(x, s) ==
    IF s = <<>> THEN <<x>>
    ELSE IF x >= Head(s) THEN <<x>> \o s
    ELSE <<Head(s)>> \o InsertDesc(x, Tail(s))

\* character_mn without the normalisation of line 165
SortDescOmitted(s) == s

RECURSIVE SortDesc(_)
\* tuple(sorted(cycle_type, reverse=True))
SortDesc(s) == IF s = <<>> THEN <<>> ELSE InsertDesc(Head(s), SortDesc(Tail(s)))

Reverse(s) == [i \in 1..Len(s) |-> s[Len(s) + 1 - i]]

(* ---------------------------- partitions ------------------------------- *)
\* list_to_partition without the loop that pops trailing zeros
ListToPartitionKeepZeros(l) == l

RECURSIVE ListToPartition(_)
\* list_to_partition: drop trailing zeros
ListToPartition(l) ==
    IF l # <<>> /\ l[Len(l)] = 0 THEN ListToPartition(SubSeq(l, 1, Len(l) - 1))
    ELSE l

\* is_valid_partition without the non-increasing test of lines 41-43
IsValidPartitionPositiveOnly(p) == \A i \in 1..Len(p) : p[i] > 0

\* is_valid_partition: non-increasing and all entries positive
IsValidPartition(p) ==
    IF p = <<>> THEN TRUE
    ELSE IF \E i \in 1..(Len(p) - 1) : p[i] < p[i + 1] THEN FALSE
    ELSE \A i \in 1..Len(p) : p[i] > 0

RECURSIVE Generate(_, _, _)
RECURSIVE GenerateFrom(_, _, _, _)
\* partitions.generate(remaining, max_part, current): the tuples it appends, in order
Generate(remaining, max_part, current) ==
    IF remaining = 0 THEN <<current>>
    ELSE GenerateFrom(remaining, max_part, current, Min(remaining, max_part))

\* the loop of line 216 stopping before part = 1: range(..., 1, -1)
GenerateFromStopsAtTwo(remaining, max_part, current, part) ==
    IF part < 2 THEN <<>>
    ELSE Generate(remaining - part, part, Append(current, part))
         \o GenerateFrom(remaining, max_part, current, part - 1)

\* the loop "for part in range(min(remaining, max_part), 0, -1)" from part on
GenerateFrom(remaining, max_part, current, part) ==
    IF part < 1 THEN <<>>
    ELSE Generate(remaining - part, part, Append(current, part))
         \o GenerateFrom(remaining, max_part, current, part - 1)

\* partitions(n)
Partitions(m) == IF m = 0 THEN << <<>> >> ELSE Generate(m, m, <<>>)

(* ------------------------ remove_border_strip -------------------------- *)
\* cells the while loop may take from row end_row (lines 75-84)
StripAvailable(p, start_row, end_row) ==
    IF end_row = start_row THEN At(p, end_row)
    ELSE IF end_row + 1 < Len(p) THEN At(p, end_row) - At(p, end_row + 1)
    ELSE At(p, end_row)

\* the "connectivity" test of lines 110-129: TRUE when the loop goes on
StripConnected(p, end_row, removed) ==
    IF removed > 0
    THEN LET diff == (At(p, end_row) - 1) - At(p, end_row + 1)
         IN  ~(diff < 0 \/ diff > 1)
    ELSE TRUE

RECURSIVE StripWalk(_, _, _, _, _, _)
\* the while loop of lines 73-137 from the state (p, removed, end_row, height)
\* to the state in which it stops
StripWalk(p, k, start_row, end_row, removed, height) ==
    IF ~(removed < k /\ end_row >= 0)
    THEN [p |-> p, removed |-> removed, end_row |-> end_row, height |-> height]
    ELSE LET available == StripAvailable(p, start_row, end_row)
             to_remove == Min(available, k - removed)
         IN  IF available <= 0 \/ ~StripConnected(p, end_row, removed)
             THEN [p |-> p, removed |-> removed, end_row |-> end_row,
                   height |-> height]
             ELSE LET p2 == [p EXCEPT ![end_row + 1] = @ - to_remove]
                      removed2 == removed + to_remove
                  IN  IF removed2 < k
                      THEN StripWalk(p2, k, start_row, end_row - 1, removed2,
                                     IF end_row - 1 >= 0 THEN height + 1
                                     ELSE height)
                      ELSE StripWalk(p2, k, start_row, end_row, removed2, height)

RECURSIVE StripResultsHeightFromZero(_, _, _)
\* the loop over start_row with height = 0 in place of height = 1 (line 71)
StripResultsHeightFromZero(partition, k, start_row) ==
    IF start_row >= Len(partition) THEN <<>>
    ELSE LET w == StripWalk(partition, k, start_row, start_row, 0, 0)
             new_p == ListToPartition(w.p)
         IN  (IF w.removed = k /\ IsValidPartition(new_p)
              THEN << <<new_p, w.height>> >>
              ELSE <<>>)
             \o StripResultsHeightFromZero(partition, k, start_row + 1)

RECURSIVE StripResults(_, _, _)
\* the list "results" built by the loop over start_row (lines 64-144), from
\* start_row on
StripResults(partition, k, start_row) ==
    IF start_row >= Len(partition) THEN <<>>
    ELSE LET w == StripWalk(partition, k, start_row, start_row, 0, 1)
             new_p == ListToPartition(w.p)
         IN  (IF w.removed = k /\ IsValidPartition(new_p)
              THEN << <<new_p, w.height>> >>
              ELSE <<>>)
             \o StripResults(partition, k, start_row + 1)

RECURSIVE UniqueByHeight(_, _)
\* the deduplication keyed on the height instead of the partition
UniqueByHeight(results, seen) ==
    IF results = <<>> THEN <<>>
    ELSE IF Head(results)[2] \in seen THEN UniqueByHeight(Tail(results), seen)
    ELSE <<Head(results)>>
         \o UniqueByHeight(Tail(results), seen \cup {Head(results)[2]})

RECURSIVE Unique(_, _)
\* lines 146-152: keep, per partition, the first pair in list order
Unique(results, seen) ==
    IF results = <<>> THEN <<>>
    ELSE IF Head(results)[1] \in seen THEN Unique(Tail(results), seen)
    ELSE <<Head(results)>>
         \o Unique(Tail(results), seen \cup {Head(results)[1]})

\* remove_border_strip(partition, k): sequence of <<new_partition, height>>
RemoveBorderStrip(partition, k) ==
    IF partition = <<>> \/ k <= 0 THEN <<>>
    ELSE Unique(StripResults(partition, k, 0), {})

(* ----------------------------- character_mn ---------------------------- *)
\* the sign of line 191 with the height ignored
SignAlwaysPlus(height) == 1

\* (-1) ** (height - 1)
Sign(height) == IF (height - 1) % 2 = 0 THEN 1 ELSE -1

RECURSIVE CharacterMn(_, _)
RECURSIVE SumRemovals(_, _, _)
\* the loop of lines 189-193 over removals[i..]
SumRemovals(removals, remaining_cycles, i) ==
    IF i > Len(removals) THEN 0
    ELSE Sign(removals[i][2]) * CharacterMn(removals[i][1], remaining_cycles)
         + SumRemovals(removals, remaining_cycles, i + 1)

\* character_mn(partition, cycle_type)
CharacterMn(partition, ct) ==
    LET cycle_type == SortDesc(ct)
    IN  IF partition = <<>> /\ cycle_type = <<>> THEN 1
        ELSE IF partition = <<>> \/ cycle_type = <<>> THEN 0
        ELSE IF SumSeq(partition) # SumSeq(cycle_type) THEN 0
        ELSE LET k == cycle_type[1]
                 remaining_cycles == Tail(cycle_type)
                 removals == RemoveBorderStrip(partition, k)
             IN  IF removals = <<>> THEN 0
                 ELSE SumRemovals(removals, remaining_cycles, 1)

(* ------------------------- conjugacy_class_size ------------------------ *)
\* every part counted once, its multiplicity lost
MultAlwaysOne(cycle_type, part) == 1

\* Counter(cycle_type)[part]
Mult(cycle_type, part) == Cardinality({i \in 1..Len(cycle_type) : cycle_type[i] = part})

RECURSIVE ZProductNoFactorial(_, _)
\* the product z without the factor factorial(mult) of line 203
ZProductNoFactorial(cycle_type, parts) ==
    IF parts = {} THEN 1
    ELSE LET part == CHOOSE x \in parts : TRUE
         IN  Power(part, Mult(cycle_type, part))
             * ZProductNoFactorial(cycle_type, parts \ {part})

RECURSIVE ZProduct(_, _)
\* the product z over the distinct parts in the set parts (lines 201-203)
ZProduct(cycle_type, parts) ==
    IF parts = {} THEN 1
    ELSE LET part == CHOOSE x \in parts : TRUE
             mult == Mult(cycle_type, part)
         IN  Power(part, mult) * Factorial(mult)
             * ZProduct(cycle_type, parts \ {part})

\* conjugacy_class_size(cycle_type, n)
ConjugacyClassSize(cycle_type, m) ==
    Factorial(m) \div ZProduct(cycle_type, Range(cycle_type))

(* -------------------- kronecker_coefficient_exact ---------------------- *)
\* line 246 with chi_lam used in place of chi_mu
KronTermLamTwice(l, m, v, r, size) ==
    ConjugacyClassSize(r, size) * CharacterMn(l, r) * CharacterMn(l, r)
    * CharacterMn(v, r)

\* one addend of line 246
KronTerm(l, m, v, r, size) ==
    ConjugacyClassSize(r, size) * CharacterMn(l, r) * CharacterMn(m, r)
    * CharacterMn(v, r)

\* line 234 without the test of sum(nu)
SizeMismatchMuOnly(l, m, v) == SumSeq(m) # SumSeq(l)

\* the guard of line 234: TRUE when the call returns 0 at once
SizeMismatch(l, m, v) ==
    SumSeq(m) # SumSeq(l) \/ SumSeq(v) # SumSeq(l)

RECURSIVE KronTotal(_, _, _, _, _, _)
\* the accumulation of lines 239-246 over parts[i..]
KronTotal(l, m, v, parts, size, i) ==
    IF i > Len(parts) THEN 0
    ELSE KronTerm(l, m, v, parts[i], size)
         + KronTotal(l, m, v, parts, size, i + 1)

\* kronecker_coefficient_exact(lam, mu, nu) for sum(lam) >= 0
KroneckerCoefficientExact(l, m, v) ==
    LET size == SumSeq(l)
    IN  IF SizeMismatch(l, m, v) THEN 0
        ELSE KronTotal(l, m, v, Partitions(size), size, 1) \div Factorial(size)

(* -------------- hook lengths (representation_analyzer.py) -------------- *)
\* arm + leg + 1 of the cell (i, j), 0-based
Hook(partition, i, j) ==
    LET arm == At(partition, i) - j - 1
        leg == Cardinality({r \in (i + 1)..(Len(partition) - 1) :
                              At(partition, r) > j})
    IN  arm + leg + 1

RECURSIVE HookProduct(_, _, _)
\* the double loop of hook_length from the cell (i, j) on
HookProduct(partition, i, j) ==
    IF i >= Len(partition) THEN 1
    ELSE IF j >= At(partition, i) THEN HookProduct(partition, i + 1, 0)
    ELSE Hook(partition, i, j) * HookProduct(partition, i, j + 1)

\* hook_length(partition): product of all hook lengths
HookLength(partition) == IF partition = <<>> THEN 1 ELSE HookProduct(partition, 0, 0)

\* specht_dimension(partition)
SpechtDimension(partition) ==
    IF partition = <<>> THEN 1
    ELSE Factorial(SumSeq(partition)) \div HookLength(partition)

(* ------------------------------ inputs --------------------------------- *)
RECURSIVE PartitionsUpTo(_)
\* every partition of every n <= m
PartitionsUpTo(m) ==
    IF m < 0 THEN {} ELSE Range(Partitions(m)) \cup PartitionsUpTo(m - 1)

\* sequences of length 1..MaxInvLen over -MaxNeg..MaxInvEntry that are not
\* partitions: an increasing step, a zero or a negative entry
InvalidSequences ==
    {s \in UNION {[1..len -> (0 - MaxNeg)..MaxInvEntry] : len \in 1..MaxInvLen} :
        ~IsValidPartition(s)}

\* first arguments given to character_mn and remove_border_strip
PartitionInputs == PartitionsUpTo(MaxN) \cup InvalidSequences

\* tuple([1] * m), the partition (1^m)
Ones(m) == [i \in 1..m |-> 1]

\* every ordering of every cycle type of n <= MaxPermN
Reorderings ==
    {c \in UNION {[1..len -> 1..MaxPermN] : len \in 0..MaxPermN} :
        SumSeq(c) <= MaxPermN}

\* cycle types given to character_mn: each partition in descending and in
\* ascending order, and the small ones in every order
CycleTypeInputs ==
    PartitionsUpTo(MaxN) \cup {Reverse(r) : r \in PartitionsUpTo(MaxN)}
    \cup Reorderings

\* argument triples given to kronecker_coefficient_exact
KroneckerInputs ==
    (PartitionsUpTo(MaxKronN) \X PartitionsUpTo(MaxKronN) \X PartitionsUpTo(MaxKronN))
    \cup {<< <<m>>, <<m>>, <<m>> >> : m \in 1..MaxN}
    \cup {<<Ones(m), Ones(m), Ones(m)>> : m \in 1..MaxN}
    \cup {<<s, s, s>> : s \in InvalidSequences}
    \cup UNION {{<<s, q, q>>, <<q, s, q>>, <<q, q, s>>} :
                   s \in InvalidSequences, q \in PartitionsUpTo(MaxKronN)}

(* ------------------------------- state --------------------------------- *)
VARIABLES
    pc,          \* "idle", "loop" (inside the for loop of kronecker), "done"
    op,          \* the function called: "none", "character", "strip", "kronecker",
                 \* "partitions", "class_size"
    partition,   \* first argument of character_mn / remove_border_strip
    cycle_type,  \* second argument of character_mn
    k,           \* second argument of remove_border_strip
    lam, mu, nu, \* arguments of kronecker_coefficient_exact
    n,           \* kronecker: n = sum(lam)
    all_parts,   \* kronecker: partitions(n)
    idx,         \* kronecker: number of classes already added to total
    total,       \* kronecker: the accumulated sum
    outcome,     \* how the call ended: "none", "returned" or the exception raised
    ret,         \* the integer returned (character_mn, kronecker)
    removals     \* the list returned by remove_border_strip

\* CatalyticTape (engines/holographic/catalytic_tape.py) and its caller
VARIABLES
    tape_pc,       \* "off", "idle", "written" (between the two writes), "checked"
    tape,          \* self.tape
    initial_state, \* self.initial_state
    pending,       \* <<index, value>> of the write still to be undone
    restoration    \* what check_restoration() returned ("none" before the call)

\* RefuterGame (engines/metemath/refuter_game.py)
VARIABLES
    ref_pc,        \* "off", "loop", "found" (after the break), "done"
    problem_size,  \* self.size
    mapping,       \* self.mapping: mapping[j + 1] is the value of key j
    ref_i,         \* the loop variable i
    errors_found,  \* the list errors_found
    success        \* first component of the returned pair ("none" before)

\* HolographicInterpreter (engines/holographic/interpreter.py) driven by
\* test_holographic_regimes
VARIABLES
    holo_pc,          \* "off", "start", "tree", "merging", "verified", "done",
                      \* "IndexError"
    trace_len,        \* number of summaries of each trace
    gap,              \* 0, or the index of the summary whose q_in breaks the chain
    regime,           \* regime of the trace being verified
    summaries,        \* argument of the running build_causal_tree call
    next_level,       \* the list next_level
    merge_i,          \* the loop variable i of lines 85-89
    memory_snapshots, \* self.memory_snapshots
    verified_count,   \* self.verified_count
    verify_result,    \* what verify_trace returned ("none" before)
    void_memory,      \* the test's void_memory
    volume_memory,    \* the test's volume_memory
    test_result       \* what test_holographic_regimes returned ("none" before)

\* AlgebraicReplayEngine (engines/holography/optimization.py)
VARIABLES
    are_pc,         \* "off", "new", "evaluated", "reconstructed", "RecursionError"
    time_bound_t,   \* self.t
    block_size,     \* self.block_size
    boundary_store, \* self.boundary_store: interval <<start, end>> -> summary
    max_payload,    \* self.max_payload
    max_overhead,   \* self.max_overhead
    target_time,    \* argument of reconstruct_state_from_boundary
    reconstructed   \* what reconstruct_state_from_boundary returned

\* the lru_cache of character_mn (murnaghan_nakayama.py line 155) and the
\* calls that go through it
VARIABLES
    cache_pc,    \* "off", "idle" (no call yet), "done" (a call has returned)
    cache_op,    \* the function called: "none", "character", "kronecker"
    cache_args,  \* the arguments of the call
    cache_ret,   \* the integer the call returned
    cache,       \* the entries <<key, result>>, least recently used first
    stored,      \* every key that has been put in the cache so far
    rerun,       \* keys whose body ran again after they had been stored
    cache_calls  \* number of calls made so far

\* the class contributions of kronecker_coefficient_exact added in any order
VARIABLES
    par_pc,      \* "off", "idle", "reduce", "done"
    par_args,    \* <<lam, mu, nu>>
    par_parts,   \* partitions(n)
    par_todo,    \* indices of the classes whose contribution is not yet added
    par_total,   \* the shared total
    par_ret      \* the value returned

mnVars == <<pc, op, partition, cycle_type, k, lam, mu, nu, n, all_parts, idx,
            total, outcome, ret, removals>>

tapeVars == <<tape_pc, tape, initial_state, pending, restoration>>

refVars == <<ref_pc, problem_size, mapping, ref_i, errors_found, success>>

holoVars == <<holo_pc, trace_len, gap, regime, summaries, next_level, merge_i,
              memory_snapshots, verified_count, verify_result, void_memory,
              volume_memory, test_result>>

areVars == <<are_pc, time_bound_t, block_size, boundary_store, max_payload,
             max_overhead, target_time, reconstructed>>

cacheVars == <<cache_pc, cache_op, cache_args, cache_ret, cache, stored, rerun,
               cache_calls>>

parVars == <<par_pc, par_args, par_parts, par_todo, par_total, par_ret>>

vars == <<mnVars, tapeVars, refVars, holoVars, areVars, cacheVars, parVars>>

\* everything but the state of the Murnaghan-Nakayama module
notMN == <<tapeVars, refVars, holoVars, areVars, cacheVars, parVars>>

\* everything but the tape
notTape == <<mnVars, refVars, holoVars, areVars, cacheVars, parVars>>

\* everything but the refuter game
notRef == <<mnVars, tapeVars, holoVars, areVars, cacheVars, parVars>>

\* everything but the holographic interpreter
notHolo == <<mnVars, tapeVars, refVars, areVars, cacheVars, parVars>>

\* everything but the replay engine
notAre == <<mnVars, tapeVars, refVars, holoVars, cacheVars, parVars>>

\* everything but the cache of character_mn
notCache == <<mnVars, tapeVars, refVars, holoVars, areVars, parVars>>

\* everything but the reduction in any order
notPar == <<mnVars, tapeVars, refVars, holoVars, areVars, cacheVars>>

kronVars == <<lam, mu, nu, n, all_parts, idx, total>>

\* no call of the Murnaghan-Nakayama module is running
MNInit ==
    /\ pc = "idle"
    /\ op = "none"
    /\ partition = <<>>
    /\ cycle_type = <<>>
    /\ k = 0
    /\ lam = <<>>
    /\ mu = <<>>
    /\ nu = <<>>
    /\ n = 0
    /\ all_parts = <<>>
    /\ idx = 0
    /\ total = 0
    /\ outcome = "none"
    /\ ret = 0
    /\ removals = <<>>

\* no CatalyticTape has been constructed
TapeOff ==
    /\ tape_pc = "off"
    /\ tape = <<>>
    /\ initial_state = <<>>
    /\ pending = <<>>
    /\ restoration = "none"

\* no RefuterGame has been constructed
RefOff ==
    /\ ref_pc = "off"
    /\ problem_size = 0
    /\ mapping = <<>>
    /\ ref_i = 0
    /\ errors_found = <<>>
    /\ success = "none"

\* no HolographicInterpreter has been constructed
HoloOff ==
    /\ holo_pc = "off"
    /\ trace_len = 0
    /\ gap = 0
    /\ regime = "VOID"
    /\ summaries = <<>>
    /\ next_level = <<>>
    /\ merge_i = 0
    /\ memory_snapshots = <<>>
    /\ verified_count = 0
    /\ verify_result = "none"
    /\ void_memory = 0
    /\ volume_memory = 0
    /\ test_result = "none"

\* no AlgebraicReplayEngine has been constructed
AreOff ==
    /\ are_pc = "off"
    /\ time_bound_t = 0
    /\ block_size = 0
    /\ boundary_store = <<>>
    /\ max_payload = 0
    /\ max_overhead = 0
    /\ target_time = 0
    /\ reconstructed = [kind |-> "none", t |-> 0]

\* no call through the cache is modelled
CacheOff ==
    /\ cache_pc = "off"
    /\ cache_op = "none"
    /\ cache_args = <<>>
    /\ cache_ret = 0
    /\ cache = <<>>
    /\ stored = {}
    /\ rerun = {}
    /\ cache_calls = 0

\* no reduction in any order is modelled
ParOff ==
    /\ par_pc = "off"
    /\ par_args = <<>>
    /\ par_parts = <<>>
    /\ par_todo = {}
    /\ par_total = 0
    /\ par_ret = 0

Init == MNInit /\ TapeOff /\ RefOff /\ HoloOff /\ AreOff /\ CacheOff
              /\ ParOff

(* ------------------------------ actions -------------------------------- *)
\* a caller evaluates character_mn(p, c)
CallCharacter ==
    /\ pc = "idle"
    /\ pc' = "done"
    /\ op' = "character"
    /\ \E p \in PartitionInputs, c \in CycleTypeInputs :
           /\ partition' = p
           /\ cycle_type' = c
           /\ ret' = CharacterMn(p, c)
    /\ outcome' = "returned"
    /\ UNCHANGED <<k, removals>>
    /\ UNCHANGED kronVars
    /\ UNCHANGED notMN

\* a caller evaluates remove_border_strip(p, size)
CallRemoveBorderStrip ==
    /\ pc = "idle"
    /\ pc' = "done"
    /\ op' = "strip"
    /\ \E p \in PartitionInputs, size \in (0 - MaxNeg)..(MaxN + 1) :
           /\ partition' = p
           /\ k' = size
           /\ removals' = RemoveBorderStrip(p, size)
    /\ outcome' = "returned"
    /\ UNCHANGED <<cycle_type, ret>>
    /\ UNCHANGED kronVars
    /\ UNCHANGED notMN

\* kronecker_coefficient_exact, lines 233-239: the size test, partitions(n),
\* total = 0
CallKronecker ==
    /\ pc = "idle"
    /\ op' = "kronecker"
    /\ idx' = 0
    /\ total' = 0
    /\ \E t \in KroneckerInputs :
           LET l == t[1]
               m == t[2]
               v == t[3]
           IN  /\ lam' = l
               /\ mu' = m
               /\ nu' = v
               /\ n' = SumSeq(l)
               /\ IF SizeMismatch(l, m, v)
                  THEN /\ pc' = "done"
                       /\ outcome' = "returned"
                       /\ ret' = 0
                       /\ all_parts' = <<>>
                  ELSE /\ pc' = "loop"
                       /\ all_parts' = (IF SumSeq(l) < 0 THEN <<>>
                                        ELSE Partitions(SumSeq(l)))
                       /\ UNCHANGED <<outcome, ret>>
    /\ UNCHANGED <<partition, cycle_type, k, removals>>
    /\ UNCHANGED notMN

\* one iteration of the for loop, lines 240-246
KronStep ==
    /\ pc = "loop"
    /\ idx < Len(all_parts)
    /\ total' = total + KronTerm(lam, mu, nu, all_parts[idx + 1], n)
    /\ idx' = idx + 1
    /\ UNCHANGED <<pc, op, partition, cycle_type, k, lam, mu, nu, n, all_parts,
                   outcome, ret, removals>>
    /\ UNCHANGED notMN

\* line 248: return total // factorial(n); math.factorial raises ValueError
\* for a negative n
KronReturn ==
    /\ pc = "loop"
    /\ idx = Len(all_parts)
    /\ pc' = "done"
    /\ IF n < 0
       THEN /\ outcome' = "ValueError"
            /\ UNCHANGED ret
       ELSE /\ outcome' = "returned"
            /\ ret' = total \div Factorial(n)
    /\ UNCHANGED <<op, partition, cycle_type, k, lam, mu, nu, n, all_parts, idx,
                   total, removals>>
    /\ UNCHANGED notMN

\* a caller evaluates partitions(m)
CallPartitions ==
    /\ pc = "idle"
    /\ pc' = "done"
    /\ op' = "partitions"
    /\ \E m \in (0 - MaxNeg)..MaxN :
           /\ n' = m
           /\ all_parts' = Partitions(m)
    /\ outcome' = "returned"
    /\ UNCHANGED <<partition, cycle_type, k, lam, mu, nu, idx, total, ret,
                   removals>>
    /\ UNCHANGED notMN

\* a caller evaluates conjugacy_class_size(rho, m) for a partition rho of m,
\* as line 241 does
CallConjugacyClassSize ==
    /\ pc = "idle"
    /\ pc' = "done"
    /\ op' = "class_size"
    /\ \E rho \in PartitionsUpTo(MaxN) :
           /\ cycle_type' = rho
           /\ n' = SumSeq(rho)
           /\ ret' = ConjugacyClassSize(rho, SumSeq(rho))
    /\ outcome' = "returned"
    /\ UNCHANGED <<partition, k, lam, mu, nu, all_parts, idx, total, removals>>
    /\ UNCHANGED notMN

\* the caller has read the outcome; the next call starts afresh
Finish ==
    /\ pc = "done"
    /\ pc' = "idle"
    /\ op' = "none"
    /\ partition' = <<>>
    /\ cycle_type' = <<>>
    /\ k' = 0
    /\ lam' = <<>>
    /\ mu' = <<>>
    /\ nu' = <<>>
    /\ n' = 0
    /\ all_parts' = <<>>
    /\ idx' = 0
    /\ total' = 0
    /\ outcome' = "none"
    /\ ret' = 0
    /\ removals' = <<>>
    /\ UNCHANGED notMN

Next ==
    \/ CallCharacter
    \/ CallRemoveBorderStrip
    \/ CallKronecker
    \/ CallPartitions
    \/ CallConjugacyClassSize
    \/ KronStep
    \/ KronReturn
    \/ Finish

Spec == Init /\ [][Next]_vars

(* ------------------------------ claims --------------------------------- *)
\* the S_4 character table of engines/tests/mn_debug.py: <<partition, cycle
\* type, expected value>>
expected ==
    { << <<4>>, <<1,1,1,1>>, 1 >>, << <<4>>, <<2,1,1>>, 1 >>,
      << <<4>>, <<2,2>>, 1 >>, << <<4>>, <<3,1>>, 1 >>, << <<4>>, <<4>>, 1 >>,
      << <<3,1>>, <<1,1,1,1>>, 3 >>, << <<3,1>>, <<2,1,1>>, 1 >>,
      << <<3,1>>, <<2,2>>, -1 >>, << <<3,1>>, <<3,1>>, 0 >>,
      << <<3,1>>, <<4>>, -1 >>,
      << <<2,2>>, <<1,1,1,1>>, 2 >>, << <<2,2>>, <<2,1,1>>, 0 >>,
      << <<2,2>>, <<2,2>>, 2 >>, << <<2,2>>, <<3,1>>, -1 >>,
      << <<2,2>>, <<4>>, 0 >>,
      << <<2,1,1>>, <<1,1,1,1>>, 3 >>, << <<2,1,1>>, <<2,1,1>>, -1 >>,
      << <<2,1,1>>, <<2,2>>, -1 >>, << <<2,1,1>>, <<3,1>>, 0 >>,
      << <<2,1,1>>, <<4>>, 1 >>,
      << <<1,1,1,1>>, <<1,1,1,1>>, 1 >>, << <<1,1,1,1>>, <<2,1,1>>, -1 >>,
      << <<1,1,1,1>>, <<2,2>>, 1 >>, << <<1,1,1,1>>, <<3,1>>, 1 >>,
      << <<1,1,1,1>>, <<4>>, -1 >> }

\* C1: every character_mn(lambda, rho) call on a partition and a cycle type of
\* 4 returns the entry of the S_4 character table listed in mn_debug.py.
C1_S4CharacterTable ==
    (pc = "done" /\ op = "character") =>
        \A e \in expected :
            (partition = e[1] /\ cycle_type = e[2]) =>
                (outcome = "returned" /\ ret = e[3])

\* C2: remove_border_strip((2,2), 4) returns the empty list, and
\* character_mn((2,2), (4,)), which sums over that list, returns 0.
C2_SquareIsNoBorderStrip ==
    /\ (pc = "done" /\ op = "strip" /\ partition = <<2, 2>> /\ k = 4)
           => removals = <<>>
    /\ (pc = "done" /\ op = "character" /\ partition = <<2, 2>>
        /\ cycle_type = <<4>>) => ret = 0

\* C3: kronecker_coefficient_exact((2,1),(2,1),(2,1)) returns 1.
C3_StandardRepresentation ==
    (pc = "done" /\ op = "kronecker" /\ lam = <<2, 1>> /\ mu = <<2, 1>>
     /\ nu = <<2, 1>>) => (outcome = "returned" /\ ret = 1)

\* C4: for every n >= 1, kronecker_coefficient_exact((n,),(n,),(n,)) returns 1.
C4_TrivialRepresentation ==
    (pc = "done" /\ op = "kronecker" /\ Len(lam) = 1 /\ lam[1] >= 1
     /\ mu = lam /\ nu = lam) => (outcome = "returned" /\ ret = 1)

\* C4 witness: the call on ((5,),(5,),(5,)) has gone through its 7 classes
\* and returned 1.
C4_Witness ==
    /\ pc = "done" /\ op = "kronecker"
    /\ lam = <<5>> /\ mu = <<5>> /\ nu = <<5>>
    /\ idx = 7 /\ ret = 1

\* the three arguments of the running kronecker call are partitions of one n
KronArgsArePartitions ==
    /\ op = "kronecker"
    /\ IsValidPartition(lam) /\ IsValidPartition(mu) /\ IsValidPartition(nu)
    /\ ~SizeMismatch(lam, mu, nu)

\* C5: for partitions lambda, mu, nu of the same n, the sum accumulated over
\* all cycle types, as it stands before the division, is a multiple of n!.
C5_ExactDivision ==
    (KronArgsArePartitions /\ pc \in {"loop", "done"} /\ idx = Len(all_parts))
        => total % Factorial(n) = 0

\* C6: for partitions lambda, mu, nu of the same n,
\* kronecker_coefficient_exact returns a value >= 0.
C6_NonNegative ==
    (KronArgsArePartitions /\ pc = "done") => (outcome = "returned" /\ ret >= 0)

\* C7: kronecker_coefficient_exact returns the same value for all 6 orderings
\* of three partitions, whether their sums are equal or not.
C7_KroneckerSymmetric ==
    (pc = "done" /\ op = "kronecker" /\ IsValidPartition(lam)
     /\ IsValidPartition(mu) /\ IsValidPartition(nu)) =>
        /\ outcome = "returned"
        /\ ret = KroneckerCoefficientExact(lam, nu, mu)
        /\ ret = KroneckerCoefficientExact(mu, lam, nu)
        /\ ret = KroneckerCoefficientExact(mu, nu, lam)
        /\ ret = KroneckerCoefficientExact(nu, lam, mu)
        /\ ret = KroneckerCoefficientExact(nu, mu, lam)

\* C7 witness: the call on three arguments that are not all equal,
\* ((3,),(2,1),(2,1)), has returned a non-zero value.
C7_Witness ==
    /\ pc = "done" /\ op = "kronecker"
    /\ lam = <<3>> /\ mu = <<2, 1>> /\ nu = <<2, 1>>
    /\ idx = 3 /\ ret = 1

\* C8: for every partition lambda of n, character_mn(lambda, (1,...,1)) with n
\* ones returns specht_dimension(lambda) = n! / (product of hook lengths).
C8_IdentityCharacterIsDimension ==
    (pc = "done" /\ op = "character" /\ IsValidPartition(partition)
     /\ Len(cycle_type) = SumSeq(partition)
     /\ \A i \in 1..Len(cycle_type) : cycle_type[i] = 1) =>
        (outcome = "returned" /\ ret = SpechtDimension(partition))

\* C8 witness: character_mn((3,2,1), (1,1,1,1,1,1)) has returned 16, the
\* dimension of the Specht module of (3,2,1).
C8_Witness ==
    /\ pc = "done" /\ op = "character"
    /\ partition = <<3, 2, 1>> /\ cycle_type = <<1, 1, 1, 1, 1, 1>>
    /\ ret = 16

\* C9: when the accumulated sum is not a multiple of n!, the Kronecker call
\* ends in InternalConsistencyError and returns no quotient.
C9_InexactDivisionRaises ==
    (pc = "done" /\ op = "kronecker" /\ n >= 0 /\ ~SizeMismatch(lam, mu, nu)
     /\ total % Factorial(n) # 0) => outcome = "InternalConsistencyError"

\* C10: a character or kronecker call with an argument that is not a valid
\* partition never enters the class loop and ends in InvalidPartitionError.
C10_InvalidPartitionRaises ==
    /\ (op = "character" /\ pc = "done" /\ ~IsValidPartition(partition))
           => outcome = "InvalidPartitionError"
    /\ (op = "kronecker"
        /\ ~(IsValidPartition(lam) /\ IsValidPartition(mu)
             /\ IsValidPartition(nu)))
           => (pc # "loop" /\ (pc = "done" => outcome = "InvalidPartitionError"))

\* C11: a size mismatch is a value: character_mn returns 0 when sum(lambda)
\* differs from sum(rho), and kronecker_coefficient_exact returns 0, without
\* entering the class loop, when the three sums are not all equal.
C11_SizeMismatchReturnsZero ==
    /\ (op = "character" /\ pc = "done"
        /\ SumSeq(partition) # SumSeq(cycle_type))
           => (outcome = "returned" /\ ret = 0)
    /\ (op = "kronecker"
        /\ ~(SumSeq(lam) = SumSeq(mu) /\ SumSeq(mu) = SumSeq(nu)))
           => (pc = "done" /\ outcome = "returned" /\ ret = 0
               /\ idx = 0 /\ all_parts = <<>>)

\* C11 witness: kronecker_coefficient_exact((2,1),(2,1),(1,1)), whose third
\* sum alone differs, has returned 0.
C11_Witness ==
    /\ pc = "done" /\ op = "kronecker"
    /\ lam = <<2, 1>> /\ mu = <<2, 1>> /\ nu = <<1, 1>>
    /\ outcome = "returned" /\ ret = 0

\* length of row i (0-based) of the diagram of p, 0 below the last row
RowLen(p, i) == IF i < Len(p) THEN At(p, i) ELSE 0

\* the running call is remove_border_strip(lambda, k) on a valid partition
\* with k >= 1 and has returned
StripCallDone ==
    pc = "done" /\ op = "strip" /\ IsValidPartition(partition) /\ k >= 1

\* number of columns in which the cells removed from rows i and i+1 overlap,
\* when new_p is what is left of p
Overlap(p, new_p, i) ==
    LET both == Min(RowLen(p, i), RowLen(p, i + 1))
                - (IF RowLen(new_p, i) > RowLen(new_p, i + 1)
                   THEN RowLen(new_p, i) ELSE RowLen(new_p, i + 1))
    IN  IF both > 0 THEN both ELSE 0

\* rows of p that lose at least one cell
TouchedRows(p, new_p) == {i \in 0..(Len(p) - 1) : RowLen(new_p, i) # RowLen(p, i)}

\* C12: no pair returned by remove_border_strip removes a 2x2 block: the
\* cells removed from two adjacent rows overlap in at most one column.
C12_NoSquareRemoved ==
    StripCallDone =>
        \A j \in 1..Len(removals) : \A i \in 0..(Len(partition) - 2) :
            Overlap(partition, removals[j][1], i) <= 1

\* C13: every pair returned by remove_border_strip removes an edge-connected
\* set of cells: the touched rows are consecutive and the cells removed from
\* two adjacent touched rows share a column.
C13_StripEdgeConnected ==
    StripCallDone =>
        \A j \in 1..Len(removals) :
            LET touched == TouchedRows(partition, removals[j][1])
            IN  \A a \in touched : \A b \in touched :
                    a < b => /\ \A i \in a..b : i \in touched
                             /\ (b = a + 1 =>
                                   Overlap(partition, removals[j][1], a) >= 1)

C15_OnlyDeclaredOutcomes ==
    (pc = "done" /\ op \in {"character", "kronecker"}) =>
        outcome \in {"returned", "InvalidPartitionError",
                     "InternalConsistencyError"}

\* c2 is a reordering of c: the same entries with the same multiplicities
IsReordering(c2, c) ==
    /\ Len(c2) = Len(c)
    /\ \A i \in 1..Len(c) : Mult(c2, c[i]) = Mult(c, c[i])

\* C16: character_mn depends only on the multiset of cycle lengths: every
\* reordering of the cycle type gives the value the call returned.
C16_CycleOrderIrrelevant ==
    (pc = "done" /\ op = "character") =>
        \A c2 \in CycleTypeInputs :
            IsReordering(c2, cycle_type) => CharacterMn(partition, c2) = ret

\* C16 witness: character_mn((2,1,1), (1,2,1)), called with a cycle type that
\* is not sorted, has returned -1.
C16_Witness ==
    /\ pc = "done" /\ op = "character"
    /\ partition = <<2, 1, 1>> /\ cycle_type = <<1, 2, 1>>
    /\ ret = -1

(* ============ CatalyticTape (engines/holographic/catalytic_tape.py) ===== *)
\* number of cells of the tapes constructed
TapeSize == 2
\* cell contents and written values are the MaxTapeByte + 1 lowest and
\* highest bytes
MaxTapeByte == 3
\* width of numpy uint8
ByteBits == 8

\* Python True / False as returned values
PyBool(b) == IF b THEN "True" ELSE "False"

\* tape[index] |= value in place of ^=, on a and b of the given width
RECURSIVE BitXorAsOr(_, _, _)
BitXorAsOr(a, b, bits) ==
    IF bits = 0 THEN 0
    ELSE (IF a % 2 = 1 \/ b % 2 = 1 THEN 1 ELSE 0)
         + 2 * BitXorAsOr(a \div 2, b \div 2, bits - 1)

RECURSIVE BitXor(_, _, _)
\* a ^ b on unsigned integers of the given width (line 20)
BitXor(a, b, bits) ==
    IF bits = 0 THEN 0
    ELSE (((a % 2) + (b % 2)) % 2) + 2 * BitXor(a \div 2, b \div 2, bits - 1)

\* np.uint8(value)
Uint8(value) == value % Power(2, ByteBits)

\* CatalyticTape.write(index, value): the tape afterwards
TapeWrite(tp, index, value) ==
    [tp EXCEPT ![index + 1] = BitXor(@, Uint8(value), ByteBits)]

\* CatalyticTape.check_restoration()
CheckRestoration(tp, init) == tp = init

\* bytes used as cell contents and as written values
TapeBytes ==
    (0..MaxTapeByte) \cup {Power(2, ByteBits) - 1 - b : b \in 0..MaxTapeByte}

\* CatalyticTape(size, initial_data) has been constructed
TapeInit ==
    /\ tape_pc = "idle"
    /\ tape \in [1..TapeSize -> TapeBytes]
    /\ initial_state = tape
    /\ pending = <<>>
    /\ restoration = "none"

InitTape == MNInit /\ TapeInit /\ RefOff /\ HoloOff /\ AreOff /\ CacheOff
              /\ ParOff

\* test_memory_restore line 17: tape.write(i, val)
TapeWriteFirst ==
    /\ tape_pc \in {"idle", "checked"}
    /\ tape_pc' = "written"
    /\ \E index \in 0..(Len(tape) - 1), value \in TapeBytes :
           /\ tape' = TapeWrite(tape, index, value)
           /\ pending' = <<index, value>>
    /\ restoration' = "none"
    /\ UNCHANGED initial_state
    /\ UNCHANGED notTape

\* test_memory_restore line 19: tape.write(i, val) again
TapeWriteSecond ==
    /\ tape_pc = "written"
    /\ tape_pc' = "idle"
    /\ tape' = TapeWrite(tape, pending[1], pending[2])
    /\ pending' = <<>>
    /\ UNCHANGED <<initial_state, restoration>>
    /\ UNCHANGED notTape

\* test_memory_restore line 21: tape.check_restoration()
TapeCheck ==
    /\ tape_pc = "idle"
    /\ tape_pc' = "checked"
    /\ restoration' = PyBool(CheckRestoration(tape, initial_state))
    /\ UNCHANGED <<tape, initial_state, pending>>
    /\ UNCHANGED notTape

NextTape == TapeWriteFirst \/ TapeWriteSecond \/ TapeCheck

SpecTape == InitTape /\ [][NextTape]_vars

\* C17: write(i, v) followed by write(i, v) leaves the tape as it was, so
\* after any sequence of such paired writes the tape equals its initial
\* state and check_restoration() returns True.
C17_PairedWritesRestore ==
    /\ tape_pc \in {"idle", "checked"} => tape = initial_state
    /\ tape_pc = "checked" => restoration = "True"

\* C17 witness: a pair of writes of a value that changes the cell has been
\* made (the first cell went from 2 to 255 and back) and check_restoration
\* has returned True.
C17_Witness ==
    /\ tape_pc = "checked"
    /\ initial_state = <<2, 255>>
    /\ tape = <<2, 255>>
    /\ restoration = "True"

(* ============== RefuterGame (engines/metemath/refuter_game.py) ========== *)
\* largest problem_size given to RefuterGame
MaxProblemSize == 5

\* range(self.size) in place of range(self.size + 1)
RefIterationsShort(sz) == sz

\* number of iterations of the loop of line 20: range(self.size + 1)
RefIterations(sz) == sz + 1

\* line 24: the first key of the mapping whose value is val
CollisionSource(mp, val) ==
    CHOOSE j \in 0..(Len(mp) - 1) :
        /\ At(mp, j) = val
        /\ \A j2 \in 0..(j - 1) : At(mp, j2) # val

\* RefuterGame(problem_size) has been constructed and propose_proof entered
RefInit ==
    /\ ref_pc = "loop"
    /\ problem_size \in 0..MaxProblemSize
    /\ mapping = <<>>
    /\ ref_i = 0
    /\ errors_found = <<>>
    /\ success = "none"

InitRef == MNInit /\ TapeOff /\ RefInit /\ HoloOff /\ AreOff /\ CacheOff
              /\ ParOff

\* one iteration of the loop of lines 20-27; random.randint(0, size - 1)
\* raises ValueError when size = 0
RefStep ==
    /\ ref_pc = "loop"
    /\ ref_i < RefIterations(problem_size)
    /\ IF problem_size < 1
       THEN /\ ref_pc' = "ValueError"
            /\ UNCHANGED <<mapping, ref_i, errors_found>>
       ELSE \E val \in 0..(problem_size - 1) :
                IF val \in Range(mapping)
                THEN /\ errors_found' =
                            Append(errors_found,
                                   <<CollisionSource(mapping, val), ref_i, val>>)
                     /\ ref_pc' = "found"
                     /\ UNCHANGED <<mapping, ref_i>>
                ELSE /\ mapping' = Append(mapping, val)
                     /\ ref_i' = ref_i + 1
                     /\ UNCHANGED <<ref_pc, errors_found>>
    /\ UNCHANGED <<problem_size, success>>
    /\ UNCHANGED notRef

\* lines 29-35: after the break or the last iteration, return
\* (True, errors_found) or (False, [])
RefReturn ==
    /\ \/ ref_pc = "found"
       \/ ref_pc = "loop" /\ ref_i >= RefIterations(problem_size)
    /\ ref_pc' = "done"
    /\ success' = PyBool(errors_found # <<>>)
    /\ UNCHANGED <<problem_size, mapping, ref_i, errors_found>>
    /\ UNCHANGED notRef

NextRef == RefStep \/ RefReturn

SpecRef == InitRef /\ [][NextRef]_vars

\* C18: for every problem size n >= 1 and every outcome of the random draws,
\* propose_proof on a new RefuterGame(n) returns success = True and a
\* non-empty error list whose entry (source, i, val) names an earlier index
\* source < i already mapped to val.
C18_PigeonholeCollision ==
    (ref_pc = "done" /\ problem_size >= 1) =>
        /\ success = "True"
        /\ errors_found # <<>>
        /\ LET e == errors_found[1]
           IN  /\ e[1] < e[2]
               /\ e[2] = ref_i
               /\ e[1] \in 0..(Len(mapping) - 1)
               /\ At(mapping, e[1]) = e[3]

\* C18 witness: with problem size 5 the first five draws were all different
\* and the sixth, at i = 5, collided with the value of index 0.
C18_Witness ==
    /\ ref_pc = "done" /\ problem_size = 5
    /\ mapping = <<3, 0, 1, 2, 4>>
    /\ errors_found = << <<0, 5, 3>> >>
    /\ success = "True"

(* ==== HolographicInterpreter (engines/holographic/interpreter.py) ======= *)
\* longest trace given to verify_trace
MaxTrace == 8
\* default block_size of HolographicInterpreter
HoloBlockSize == 32

\* create_summary(q_in, q_out, h_in, h_out, regime=reg); W_interface, a
\* bytes object of block_size zeros, is kept as its length
CreateSummary(qi, qo, hi, ho, reg) ==
    [q_in |-> qi, q_out |-> qo, h_in |-> hi, h_out |-> ho,
     W_interface |-> HoloBlockSize, regime |-> reg]

\* the test of line 46: merge does not return None
Mergeable(left, right) == left.q_out = right.q_in

\* merge(left, right) when it returns a summary (lines 49-62)
Merge(left, right) ==
    [q_in |-> left.q_in, q_out |-> right.q_out, h_in |-> left.h_in,
     h_out |-> right.h_out, W_interface |-> right.W_interface,
     regime |-> IF left.regime = "VOLUME" \/ right.regime = "VOLUME"
                THEN "VOLUME" ELSE "VOID"]

RECURSIVE FloorLog2(_)
\* int(math.log2(x)) for x >= 1
FloorLog2(x) == IF x < 2 THEN 0 ELSE 1 + FloorLog2(x \div 2)

\* active_surface_size of lines 73-80
ActiveSurfaceSize(ss) ==
    IF ss[1].regime = "VOLUME" THEN Len(ss) ELSE FloorLog2(Len(ss)) + 1

\* the trace [create_summary(i, i+1, i, i+1, regime=reg) for i in range(len)];
\* when gp # 0 the summary of index gp starts in state gp + 1, which breaks
\* the chain
Trace(len, gp, reg) ==
    [j \in 1..len |->
        CreateSummary(IF gp # 0 /\ j - 1 = gp THEN j ELSE j - 1, j, j - 1, j, reg)]

\* HolographicInterpreter() has been constructed by test_holographic_regimes
HoloInit ==
    /\ holo_pc = "start"
    /\ trace_len \in 1..MaxTrace
    /\ gap \in 0..(trace_len - 1)
    /\ regime = "VOID"
    /\ summaries = <<>>
    /\ next_level = <<>>
    /\ merge_i = 0
    /\ memory_snapshots = <<>>
    /\ verified_count = 0
    /\ verify_result = "none"
    /\ void_memory = 0
    /\ volume_memory = 0
    /\ test_result = "none"

InitHolo == MNInit /\ TapeOff /\ RefOff /\ HoloInit /\ AreOff /\ CacheOff
              /\ ParOff

\* the test builds the trace of the current regime and calls verify_trace,
\* which calls build_causal_tree (lines 96-98)
HoloVerifyTrace ==
    /\ holo_pc = "start"
    /\ holo_pc' = "tree"
    /\ summaries' = Trace(trace_len, gap, regime)
    /\ verify_result' = "none"
    /\ UNCHANGED <<trace_len, gap, regime, next_level, merge_i, memory_snapshots,
                   verified_count, void_memory, volume_memory, test_result>>
    /\ UNCHANGED notHolo

\* build_causal_tree, lines 65-84: the empty and one-element cases, else the
\* snapshot of this level
HoloBuildTree ==
    /\ holo_pc = "tree"
    /\ IF summaries = <<>>
       THEN /\ holo_pc' = "verified"
            /\ verify_result' = "False"
            /\ UNCHANGED <<memory_snapshots, next_level, merge_i>>
       ELSE IF Len(summaries) = 1
       THEN /\ holo_pc' = "verified"
            /\ verify_result' = "True"
            /\ UNCHANGED <<memory_snapshots, next_level, merge_i>>
       ELSE /\ holo_pc' = "merging"
            /\ memory_snapshots' =
                   Append(memory_snapshots, ActiveSurfaceSize(summaries))
            /\ next_level' = <<>>
            /\ merge_i' = 0
            /\ UNCHANGED verify_result
    /\ UNCHANGED <<trace_len, gap, regime, summaries, verified_count,
                   void_memory, volume_memory, test_result>>
    /\ UNCHANGED notHolo

\* one iteration of the loop of lines 85-89
HoloMerge ==
    /\ holo_pc = "merging"
    /\ merge_i < Len(summaries) - 1
    /\ IF Mergeable(At(summaries, merge_i), At(summaries, merge_i + 1))
       THEN /\ next_level' =
                   Append(next_level,
                          Merge(At(summaries, merge_i), At(summaries, merge_i + 1)))
            /\ verified_count' = verified_count + 1
            /\ merge_i' = merge_i + 2
            /\ UNCHANGED <<holo_pc, verify_result>>
       ELSE /\ holo_pc' = "verified"
            /\ verify_result' = "False"
            /\ UNCHANGED <<next_level, verified_count, merge_i>>
    /\ UNCHANGED <<trace_len, gap, regime, summaries, memory_snapshots,
                   void_memory, volume_memory, test_result>>
    /\ UNCHANGED notHolo

\* lines 91-94: carry an odd last summary over and recurse on next_level
HoloRecurse ==
    /\ holo_pc = "merging"
    /\ merge_i >= Len(summaries) - 1
    /\ holo_pc' = "tree"
    /\ summaries' = (IF Len(summaries) % 2 = 1
                     THEN Append(next_level, summaries[Len(summaries)])
                     ELSE next_level)
    /\ next_level' = <<>>
    /\ merge_i' = 0
    /\ UNCHANGED <<trace_len, gap, regime, memory_snapshots, verified_count,
                   verify_result, void_memory, volume_memory, test_result>>
    /\ UNCHANGED notHolo

\* test_holographic_regimes lines 27 and 33-36: read memory_snapshots[-1]
\* (IndexError on an empty list), then verify the VOLUME trace or return
HoloRecord ==
    /\ holo_pc = "verified"
    /\ IF memory_snapshots = <<>>
       THEN /\ holo_pc' = "IndexError"
            /\ UNCHANGED <<regime, void_memory, volume_memory, test_result>>
       ELSE IF regime = "VOID"
       THEN /\ void_memory' = memory_snapshots[Len(memory_snapshots)]
            /\ regime' = "VOLUME"
            /\ holo_pc' = "start"
            /\ UNCHANGED <<volume_memory, test_result>>
       ELSE /\ volume_memory' = memory_snapshots[Len(memory_snapshots)]
            /\ test_result' =
                   PyBool(memory_snapshots[Len(memory_snapshots)] > void_memory)
            /\ holo_pc' = "done"
            /\ UNCHANGED <<regime, void_memory>>
    /\ UNCHANGED <<trace_len, gap, summaries, next_level, merge_i,
                   memory_snapshots, verified_count, verify_result>>
    /\ UNCHANGED notHolo

NextHolo ==
    \/ HoloVerifyTrace
    \/ HoloBuildTree
    \/ HoloMerge
    \/ HoloRecurse
    \/ HoloRecord

SpecHolo == InitHolo /\ [][NextHolo]_vars

\* C19: after verify_trace on a chained VOLUME trace of N summaries the last
\* entry of memory_snapshots is strictly greater than the last entry after
\* verify_trace on a chained VOID trace of the same length.
C19_VolumeAboveVoid ==
    (holo_pc = "done" /\ gap = 0) =>
        (volume_memory > void_memory /\ test_result = "True")

(* ==== AlgebraicReplayEngine (engines/holography/optimization.py) ======== *)
\* largest time bound given to AlgebraicReplayEngine
MaxTimeBound == 16

\* int(math.sqrt(t))
ISqrt(t) == CHOOSE r \in 0..t : r * r <= t /\ (r + 1) * (r + 1) > t

Max(a, b) == IF a >= b THEN a ELSE b

\* _update_telemetry on the engine state st
UpdateTelemetry(st, payload, overhead) ==
    [st EXCEPT !.max_payload = Max(st.max_payload, payload),
               !.max_overhead = Max(st.max_overhead, overhead)]

\* store[key] = value
DictSet(store, key, value) ==
    [x \in (DOMAIN store) \cup {key} |-> IF x = key THEN value ELSE store[x]]

\* del store[key], guarded by "key in store"
DictDiscard(store, key) == [x \in (DOMAIN store) \ {key} |-> store[x]]

\* _simulate_block(start, end); hash((start, end)) is kept as the pair
SimulateBlock(start, end) ==
    [t_start |-> start, t_end |-> end, state_hash |-> <<start, end>>]

\* _merge_summaries(left, right)
MergeSummaries(left, right) ==
    [t_start |-> left.t_start, t_end |-> right.t_end, merged |-> "True"]

\* only the left child is discarded
DiscardLeftOnly(store, start, mid, end) == DictDiscard(store, <<start, mid>>)

\* lines 91-94: both children are discarded
DiscardChildren(store, start, mid, end) ==
    DictDiscard(DictDiscard(store, <<start, mid>>), <<mid + 1, end>>)

RECURSIVE RecursiveEval(_, _, _, _)
\* recursive_eval(start, end, depth) on the engine state
\* st = [store, max_payload, max_overhead]; the result carries the new engine
\* state and the returned summary.  Needs block_size >= 1 to terminate.
RecursiveEval(st, start, end, depth) ==
    LET current_overhead == depth * 2
        length == end - start + 1
    IN  IF length <= block_size
        THEN LET s1 == UpdateTelemetry(st, block_size, current_overhead)
                 boundary_state == SimulateBlock(start, end)
             IN  [st |-> [s1 EXCEPT !.store =
                                  DictSet(s1.store, <<start, end>>, boundary_state)],
                  ret |-> boundary_state]
        ELSE LET mid == (start + end) \div 2
                 left == RecursiveEval(st, start, mid, depth + 1)
                 s2 == UpdateTelemetry(left.st, block_size + block_size,
                                       current_overhead)
                 right == RecursiveEval(s2, mid + 1, end, depth + 1)
                 merged_summary == MergeSummaries(left.ret, right.ret)
                 kept == DiscardChildren(right.st.store, start, mid, end)
             IN  [st |-> [right.st EXCEPT !.store =
                                  DictSet(kept, <<start, end>>, merged_summary)],
                  ret |-> merged_summary]

RECURSIVE ReconstructStateFromBoundary(_, _, _)
\* reconstruct_state_from_boundary(target, (start, end)); the "data" string
\* of _simulate_block_until is a function of t and is left out
ReconstructStateFromBoundary(target, start, end) ==
    IF ~(start <= target /\ target <= end)
    THEN [kind |-> "None", t |-> 0]
    ELSE IF end - start + 1 <= block_size
    THEN [kind |-> "state", t |-> target]
    ELSE LET mid == (start + end) \div 2
         IN  IF target <= mid
             THEN ReconstructStateFromBoundary(target, start, mid)
             ELSE ReconstructStateFromBoundary(target, mid + 1, end)

\* AlgebraicReplayEngine(T) has been constructed
AreInit ==
    /\ are_pc = "new"
    /\ time_bound_t \in 0..MaxTimeBound
    /\ block_size = ISqrt(time_bound_t)
    /\ boundary_store = <<>>
    /\ max_payload = 0
    /\ max_overhead = 0
    /\ target_time = 0
    /\ reconstructed = [kind |-> "none", t |-> 0]

InitAre == MNInit /\ TapeOff /\ RefOff /\ HoloOff /\ AreInit /\ CacheOff
              /\ ParOff

\* are.recursive_eval(0, T, 0); with block_size 0 (T = 0) the recursion never
\* reaches the base case and Python raises RecursionError
AreRecursiveEval ==
    /\ are_pc = "new"
    /\ IF block_size < 1
       THEN /\ are_pc' = "RecursionError"
            /\ UNCHANGED <<boundary_store, max_payload, max_overhead>>
       ELSE LET r == RecursiveEval([store |-> boundary_store,
                                    max_payload |-> max_payload,
                                    max_overhead |-> max_overhead],
                                   0, time_bound_t, 0)
            IN  /\ are_pc' = "evaluated"
                /\ boundary_store' = r.st.store
                /\ max_payload' = r.st.max_payload
                /\ max_overhead' = r.st.max_overhead
    /\ UNCHANGED <<time_bound_t, block_size, target_time, reconstructed>>
    /\ UNCHANGED notAre

\* are.reconstruct_state_from_boundary(target_t, (0, T))
AreReconstruct ==
    /\ are_pc \in {"evaluated", "reconstructed"}
    /\ \E target_t \in (0 - 1)..(time_bound_t + 1) :
          /\ target_time' = target_t
          /\ reconstructed' =
                 ReconstructStateFromBoundary(target_t, 0, time_bound_t)
    /\ are_pc' = "reconstructed"
    /\ UNCHANGED <<time_bound_t, block_size, boundary_store, max_payload,
                   max_overhead>>
    /\ UNCHANGED notAre

NextAre ==
    \/ AreRecursiveEval
    \/ AreReconstruct

SpecAre == InitAre /\ [][NextAre]_vars

\* C20: once recursive_eval(0, T, 0) has returned, boundary_store holds
\* exactly the root interval (0, T); and reconstruct_state_from_boundary(t,
\* (0, T)) returns a state with 't' = t for 0 <= t <= T and None otherwise.
C20_RootOnlyAndVacuum ==
    /\ are_pc \in {"evaluated", "reconstructed"} =>
           /\ DOMAIN boundary_store = {<<0, time_bound_t>>}
           /\ Cardinality(DOMAIN boundary_store) = 1
    /\ are_pc = "reconstructed" =>
           IF 0 <= target_time /\ target_time <= time_bound_t
           THEN reconstructed.kind = "state" /\ reconstructed.t = target_time
           ELSE reconstructed.kind = "None"

\* T = 16 (block size 4, three levels of recursion), an inner time rebuilt
C20_Witness ==
    /\ are_pc = "reconstructed"
    /\ time_bound_t = 16
    /\ block_size = 4
    /\ DOMAIN boundary_store = {<<0, 16>>}
    /\ boundary_store[<<0, 16>>] = [t_start |-> 0, t_end |-> 16, merged |-> "True"]
    /\ target_time = 8
    /\ reconstructed = [kind |-> "state", t |-> 8]

(* ============== claims on remove_border_strip and the cache ============= *)
\* number of cells of p whose hook length is size
HookCount(p, size) ==
    Cardinality({c \in UNION {{<<i, j>> : j \in 0..(At(p, i) - 1)} :
                                 i \in 0..(Len(p) - 1)} :
                    Hook(p, c[1], c[2]) = size})

\* C21: remove_border_strip is complete: on a valid partition lambda and
\* k >= 1 it returns as many pairs as lambda has cells of hook length k.
C21_StripEnumerationComplete ==
    StripCallDone => Len(removals) = HookCount(partition, k)

\* C22: every pair (mu, h) returned by remove_border_strip(lambda, k) has
\* h >= 1 equal to the number of rows in which mu differs from lambda, and
\* these rows run from the final row to the starting row without a gap.
C22_HeightIsRowCount ==
    StripCallDone =>
        \A j \in 1..Len(removals) :
            LET touched == TouchedRows(partition, removals[j][1])
                h == removals[j][2]
            IN  /\ h >= 1
                /\ h = Cardinality(touched)
                /\ \E first \in touched : touched = first..(first + h - 1)

\* C22 witness: remove_border_strip((3,2,1), 3) has returned ((3,), 2): rows
\* 1 and 2 differ.
C22_Witness ==
    /\ pc = "done" /\ op = "strip"
    /\ partition = <<3, 2, 1>> /\ k = 3
    /\ removals = << <<<<3>>, 2>> >>

\* C23: on a valid partition lambda every mu returned by
\* remove_border_strip(lambda, k) is non-increasing with positive parts, lies
\* inside lambda row by row and has sum(lambda) - k cells; the list is empty
\* when lambda is empty, k <= 0 or k > sum(lambda).
C23_ResultsArePartitions ==
    (pc = "done" /\ op = "strip" /\ IsValidPartition(partition)) =>
        /\ \A j \in 1..Len(removals) :
               LET new_p == removals[j][1]
               IN  /\ \A i \in 1..Len(new_p) : new_p[i] > 0
                   /\ \A i \in 1..(Len(new_p) - 1) : new_p[i] >= new_p[i + 1]
                   /\ Len(new_p) <= Len(partition)
                   /\ \A i \in 1..Len(new_p) : new_p[i] <= partition[i]
                   /\ SumSeq(new_p) = SumSeq(partition) - k
        /\ (partition = <<>> \/ k <= 0 \/ k > SumSeq(partition))
               => removals = <<>>

\* C23 witness: remove_border_strip((2,2), 1) has returned ((2,1), 1) alone;
\* the walk from row 0, which leaves [1, 2], is not in the list.
C23_Witness ==
    /\ pc = "done" /\ op = "strip"
    /\ partition = <<2, 2>> /\ k = 1
    /\ removals = << <<<<2, 1>>, 1>> >>

\* C24: the list returned by remove_border_strip has no repeated pair and no
\* partition with two heights, and every pair the search found is in it.
C24_NoDuplicateStrips ==
    (pc = "done" /\ op = "strip") =>
        /\ \A i \in 1..Len(removals) : \A j \in 1..Len(removals) :
               i # j => /\ removals[i] # removals[j]
                        /\ removals[i][1] # removals[j][1]
        /\ (partition # <<>> /\ k > 0) =>
               Range(StripResults(partition, k, 0)) \subseteq Range(removals)

\* C24 witness: remove_border_strip((2,1), 1) has returned two strips of the
\* same height 1.
C24_Witness ==
    /\ pc = "done" /\ op = "strip"
    /\ partition = <<2, 1>> /\ k = 1
    /\ removals = << <<<<1, 1>>, 1>>, <<<<2>>, 1>> >>

(* ========= the lru_cache of character_mn (murnaghan_nakayama.py) ======== *)
\* maxsize of the cache; the code's 10000 is scaled down so that entries are
\* evicted within the calls made here
CacheMaxSize == 2
\* largest n of the partitions and cycle types given to character_mn here
MaxCacheN == 3
\* largest n of the triples given to kronecker_coefficient_exact here
MaxCacheKronN == 1
\* number of calls made one after the other
MaxCacheCalls == 2

\* a key that ignores the cycle type
MakeKeyPartitionOnly(p, ct) == <<p, <<>>>>

\* functools make_key: the positional arguments as they were passed
MakeKey(p, ct) == <<p, ct>>

\* position of key among the entries of c, 0 when it has no entry
CacheFind(c, key) ==
    IF \E i \in 1..Len(c) : c[i][1] = key
    THEN CHOOSE i \in 1..Len(c) : c[i][1] = key
    ELSE 0

\* a hit: the entry at position i becomes the most recently used
CacheTouch(c, i) ==
    SubSeq(c, 1, i - 1) \o SubSeq(c, i + 1, Len(c)) \o <<c[i]>>

\* after the body has returned: keep an entry that is already there, else
\* evict the least recently used entry of a full cache, and add the result
CacheStore(c, key, value) ==
    IF CacheFind(c, key) # 0 THEN c
    ELSE IF Len(c) >= CacheMaxSize THEN Append(Tail(c), <<key, value>>)
    ELSE Append(c, <<key, value>>)

\* the one element of a one-element set; each intermediate result below is
\* bound once, as the element of such a set, and then read as a value
The(S) == CHOOSE x \in S : TRUE

RECURSIVE CachedCharacterMn(_, _, _)
RECURSIVE CachedSumRemovals(_, _, _, _)
\* the loop of lines 189-193 with each recursive call going through the
\* cache; st = [cache, stored, rerun]
CachedSumRemovals(st, strips, remaining_cycles, i) ==
    IF i > Len(strips) THEN [st |-> st, value |-> 0]
    ELSE The(UNION {
             {[st |-> rest.st,
               value |-> Sign(strips[i][2]) * r.value + rest.value] :
                  rest \in {CachedSumRemovals(r.st, strips, remaining_cycles,
                                              i + 1)}} :
             r \in {CachedCharacterMn(st, strips[i][1], remaining_cycles)}})

\* the body of character_mn (lines 164-195) run on the cache state st
CharacterBody(st, p, ct) ==
    LET sorted == SortDesc(ct)
    IN  IF p = <<>> /\ sorted = <<>> THEN [st |-> st, value |-> 1]
        ELSE IF p = <<>> \/ sorted = <<>> THEN [st |-> st, value |-> 0]
        ELSE IF SumSeq(p) # SumSeq(sorted) THEN [st |-> st, value |-> 0]
        ELSE The({IF strips = <<>> THEN [st |-> st, value |-> 0]
                  ELSE CachedSumRemovals(st, strips, Tail(sorted), 1) :
                      strips \in {RemoveBorderStrip(p, sorted[1])}})

\* a call of the decorated character_mn: a hit returns the stored result, a
\* miss runs the body and stores what it returned
CachedCharacterMn(st, p, ct) ==
    LET key == MakeKey(p, ct)
        i == CacheFind(st.cache, key)
    IN  IF i # 0
        THEN [st |-> [st EXCEPT !.cache = CacheTouch(st.cache, i)],
              value |-> st.cache[i][2]]
        ELSE The({[st |-> [b.st EXCEPT
                               !.cache = CacheStore(b.st.cache, key, b.value),
                               !.stored = @ \cup {key}],
                   value |-> b.value] :
                      b \in {CharacterBody(
                                 [st EXCEPT !.rerun = IF key \in st.stored
                                                      THEN @ \cup {key} ELSE @],
                                 p, ct)}})

RECURSIVE CachedKronTotal(_, _, _, _, _, _, _)
\* the loop of lines 240-246 over parts[i..], the three characters of each
\* class read through the cache
CachedKronTotal(st, l, m, v, parts, size, i) ==
    IF i > Len(parts) THEN [st |-> st, value |-> 0]
    ELSE The(UNION UNION UNION {{{{
             [st |-> rest.st,
              value |-> ConjugacyClassSize(parts[i], size) * chi_lam.value
                        * chi_mu.value * chi_nu.value + rest.value] :
                 rest \in {CachedKronTotal(chi_nu.st, l, m, v, parts, size,
                                           i + 1)}} :
                 chi_nu \in {CachedCharacterMn(chi_mu.st, v, parts[i])}} :
                 chi_mu \in {CachedCharacterMn(chi_lam.st, m, parts[i])}} :
                 chi_lam \in {CachedCharacterMn(st, l, parts[i])}})

\* kronecker_coefficient_exact(l, m, v) run on the cache state st
CachedKronecker(st, l, m, v) ==
    LET size == SumSeq(l)
    IN  IF SizeMismatch(l, m, v) THEN [st |-> st, value |-> 0]
        ELSE The({[st |-> t.st, value |-> t.value \div Factorial(size)] :
                     t \in {CachedKronTotal(st, l, m, v, Partitions(size),
                                            size, 1)}})

\* every ordering of every cycle type of n <= MaxCacheN
CacheCycleInputs ==
    {c \in UNION {[1..len -> 1..MaxCacheN] : len \in 0..MaxCacheN} :
        SumSeq(c) <= MaxCacheN}

\* the module has been imported: the cache is empty
CacheInit ==
    /\ cache_pc = "idle"
    /\ cache_op = "none"
    /\ cache_args = <<>>
    /\ cache_ret = 0
    /\ cache = <<>>
    /\ stored = {}
    /\ rerun = {}
    /\ cache_calls = 0

InitCache == MNInit /\ TapeOff /\ RefOff /\ HoloOff /\ AreOff /\ CacheInit
             /\ ParOff

\* a caller evaluates character_mn(p, c) on a partition and a cycle type of
\* the same n; the cache is as the calls before left it
CacheCallCharacter ==
    /\ cache_pc \in {"idle", "done"}
    /\ cache_calls < MaxCacheCalls
    /\ \E p \in PartitionsUpTo(MaxCacheN), c \in CacheCycleInputs :
           /\ SumSeq(p) = SumSeq(c)
           /\ \E r \in {CachedCharacterMn(
                           [cache |-> cache, stored |-> stored, rerun |-> rerun],
                           p, c)} :
                  /\ cache' = r.st.cache
                  /\ stored' = r.st.stored
                  /\ rerun' = r.st.rerun
                  /\ cache_ret' = r.value
           /\ cache_args' = <<p, c>>
    /\ cache_op' = "character"
    /\ cache_pc' = "done"
    /\ cache_calls' = cache_calls + 1
    /\ UNCHANGED notCache

\* a caller evaluates kronecker_coefficient_exact(l, m, v)
CacheCallKronecker ==
    /\ cache_pc \in {"idle", "done"}
    /\ cache_calls < MaxCacheCalls
    /\ \E l \in PartitionsUpTo(MaxCacheKronN), m \in PartitionsUpTo(MaxCacheKronN),
          v \in PartitionsUpTo(MaxCacheKronN) :
           /\ ~SizeMismatch(l, m, v)
           /\ \E r \in {CachedKronecker(
                           [cache |-> cache, stored |-> stored, rerun |-> rerun],
                           l, m, v)} :
                  /\ cache' = r.st.cache
                  /\ stored' = r.st.stored
                  /\ rerun' = r.st.rerun
                  /\ cache_ret' = r.value
           /\ cache_args' = <<l, m, v>>
    /\ cache_op' = "kronecker"
    /\ cache_pc' = "done"
    /\ cache_calls' = cache_calls + 1
    /\ UNCHANGED notCache

NextCache ==
    \/ CacheCallCharacter
    \/ CacheCallKronecker

SpecCache == InitCache /\ [][NextCache]_vars

\* C25: the cache changes no value: a call through the cache, whatever was
\* called before and whatever was evicted, returns what the same call
\* returns without a cache, and every entry holds the value of its key.
C25_CacheIsTransparent ==
    /\ \A i \in 1..Len(cache) :
           cache[i][2] = CharacterMn(cache[i][1][1], cache[i][1][2])
    /\ Len(cache) <= CacheMaxSize
    /\ (cache_pc = "done" /\ cache_op = "character") =>
           cache_ret = CharacterMn(cache_args[1], cache_args[2])
    /\ (cache_pc = "done" /\ cache_op = "kronecker") =>
           cache_ret = KroneckerCoefficientExact(cache_args[1], cache_args[2],
                                                 cache_args[3])

\* C25 witness: the second call, character_mn((2,1), (1,1,1)), has returned 2
\* with a full cache, after entries of the first call were evicted.
C25_Witness ==
    /\ cache_pc = "done" /\ cache_op = "character" /\ cache_calls = 2
    /\ cache_args = << <<2, 1>>, <<1, 1, 1>> >>
    /\ cache_ret = 2
    /\ Len(cache) = CacheMaxSize
    /\ Cardinality(stored) > CacheMaxSize

\* C26: the cache is keyed by (lambda, rho sorted descending) and a key is
\* computed at most once: no two entries differ only in the order of the
\* cycle type, and no body runs for a key that has been stored before.
C26_OneEntryPerSortedKey ==
    /\ \A i \in 1..Len(cache) : \A j \in 1..Len(cache) :
           (i # j /\ cache[i][1][1] = cache[j][1][1])
               => SortDesc(cache[i][1][2]) # SortDesc(cache[j][1][2])
    /\ \A key \in stored : key[2] = SortDesc(key[2])
    /\ rerun = {}

(* ===== kronecker_coefficient_exact with the classes added in any order === *)
\* largest n of the triples whose class contributions are added in any order
MaxParN == 3

\* a lost update: the new contribution overwrites the total
AddTermOverwrite(sum, term) == term

\* line 246: total += class_size * chi_lam * chi_mu * chi_nu
AddTerm(sum, term) == sum + term

\* kronecker_coefficient_exact has not been called
ParInit ==
    /\ par_pc = "idle"
    /\ par_args = <<>>
    /\ par_parts = <<>>
    /\ par_todo = {}
    /\ par_total = 0
    /\ par_ret = 0

InitPar == MNInit /\ TapeOff /\ RefOff /\ HoloOff /\ AreOff /\ CacheOff
           /\ ParInit

\* lines 233-239: the size test, partitions(n), total = 0; every class is
\* still to be added
ParCall ==
    /\ par_pc = "idle"
    /\ \E l \in PartitionsUpTo(MaxParN), m \in PartitionsUpTo(MaxParN),
          v \in PartitionsUpTo(MaxParN) :
           /\ par_args' = <<l, m, v>>
           /\ IF SizeMismatch(l, m, v)
              THEN /\ par_pc' = "done"
                   /\ par_parts' = <<>>
                   /\ par_todo' = {}
              ELSE /\ par_pc' = "reduce"
                   /\ par_parts' = Partitions(SumSeq(l))
                   /\ par_todo' = 1..Len(Partitions(SumSeq(l)))
    /\ par_total' = 0
    /\ par_ret' = 0
    /\ UNCHANGED notPar

\* the body of the loop, lines 241-246, for one class rho = par_parts[i]
\* that has not been added yet, taken in any order
ParAdd ==
    /\ par_pc = "reduce"
    /\ \E i \in par_todo :
           /\ par_total' = AddTerm(par_total,
                                   KronTerm(par_args[1], par_args[2], par_args[3],
                                            par_parts[i], SumSeq(par_args[1])))
           /\ par_todo' = par_todo \ {i}
    /\ UNCHANGED <<par_pc, par_args, par_parts, par_ret>>
    /\ UNCHANGED notPar

\* line 248, once every class has been added
ParReturn ==
    /\ par_pc = "reduce"
    /\ par_todo = {}
    /\ par_pc' = "done"
    /\ par_ret' = par_total \div Factorial(SumSeq(par_args[1]))
    /\ UNCHANGED <<par_args, par_parts, par_todo, par_total>>
    /\ UNCHANGED notPar

NextPar ==
    \/ ParCall
    \/ ParAdd
    \/ ParReturn

SpecPar == InitPar /\ [][NextPar]_vars

RECURSIVE CountPartitions(_, _)
\* the number of partitions of m into parts <= largest
CountPartitions(m, largest) ==
    IF m = 0 THEN 1
    ELSE IF m < 0 \/ largest <= 0 THEN 0
    ELSE CountPartitions(m - largest, largest) + CountPartitions(m, largest - 1)

\* every non-increasing sequence of positive integers that sums to m
AllPartitionsOf(m) ==
    {s \in UNION {[1..len -> 1..m] : len \in 0..m} :
        /\ SumSeq(s) = m
        /\ \A i \in 1..(Len(s) - 1) : s[i] >= s[i + 1]}

\* C28: for n >= 0, partitions(n) lists each partition of n exactly once:
\* every element is a non-increasing tuple of positive integers with sum n,
\* none is repeated, none is missing, partitions(0) is the empty tuple alone,
\* and a second call returns the same list.
C28_PartitionsComplete ==
    (pc = "done" /\ op = "partitions" /\ n >= 0) =>
        /\ \A i \in 1..Len(all_parts) :
               /\ \A j \in 1..Len(all_parts[i]) : all_parts[i][j] > 0
               /\ \A j \in 1..(Len(all_parts[i]) - 1) :
                      all_parts[i][j] >= all_parts[i][j + 1]
               /\ SumSeq(all_parts[i]) = n
        /\ \A i \in 1..Len(all_parts) : \A j \in 1..Len(all_parts) :
               i # j => all_parts[i] # all_parts[j]
        /\ Len(all_parts) = CountPartitions(n, n)
        /\ n <= MaxPermN => Range(all_parts) = AllPartitionsOf(n)
        /\ n = 0 => all_parts = << <<>> >>
        /\ all_parts = Partitions(n)

\* C28 witness: partitions(5) has returned its 7 partitions, from (5,) to
\* (1,1,1,1,1).
C28_Witness ==
    /\ pc = "done" /\ op = "partitions" /\ n = 5
    /\ Len(all_parts) = 7
    /\ all_parts[1] = <<5>>
    /\ all_parts[4] = <<3, 1, 1>>
    /\ all_parts[7] = <<1, 1, 1, 1, 1>>

RECURSIVE CentralizerOrder(_, _)
\* product over the part sizes 1..i of i^(m_i) * m_i!, m_i the number of
\* parts of rho equal to i
CentralizerOrder(rho, i) ==
    IF i < 1 THEN 1
    ELSE LET m_i == Cardinality({j \in 1..Len(rho) : rho[j] = i})
         IN  Power(i, m_i) * Factorial(m_i) * CentralizerOrder(rho, i - 1)

\* C29: for a partition rho of n, conjugacy_class_size(rho, n) is a positive
\* integer c with c * prod_i (i^(m_i) * m_i!) = n!: the division is exact.
C29_ClassSizeExact ==
    (pc = "done" /\ op = "class_size") =>
        /\ ret > 0
        /\ ret * CentralizerOrder(cycle_type, n) = Factorial(n)

\* C29 witness: conjugacy_class_size((2,2,1), 5) has returned 15 = 120 / 8.
C29_Witness ==
    /\ pc = "done" /\ op = "class_size"
    /\ cycle_type = <<2, 2, 1>> /\ n = 5
    /\ ret = 15

RECURSIVE ClassSizeSum(_, _, _)
\* sum of conjugacy_class_size(rho, m) over rho = parts[i..]
ClassSizeSum(parts, m, i) ==
    IF i > Len(parts) THEN 0
    ELSE ConjugacyClassSize(parts[i], m) + ClassSizeSum(parts, m, i + 1)

\* C30: for n >= 0 the class sizes of the list partitions(n), as returned to
\* a caller and as looped over by kronecker_coefficient_exact, add up to n!.
C30_ClassEquation ==
    (n >= 0 /\ \/ (pc = "done" /\ op = "partitions")
               \/ (pc = "loop" /\ op = "kronecker")) =>
        ClassSizeSum(all_parts, n, 1) = Factorial(n)

\* C30 witness: kronecker_coefficient_exact((2,2),(2,2),(2,2)) is inside its
\* loop over the 5 classes of S_4.
C30_Witness ==
    /\ pc = "loop" /\ op = "kronecker"
    /\ lam = <<2, 2>> /\ n = 4
    /\ Len(all_parts) = 5 /\ idx = 2

=============================================================================
